---- MODULE Spec2Model ----
(***************************************************************************)
(* The domain checker of gofindadomain: CheckDomains, a dispatcher that    *)
(* admits one goroutine per domain under a counting semaphore, the tasks   *)
(* it spawns, the cancellation context, the result channel and the two     *)
(* consumers of that channel (CheckDomainsWithCallback and the TUI's       *)
(* startChecking).  One action per step between two synchronisation        *)
(* points of the Go code.                                                  *)
(***************************************************************************)
EXTENDS Integers, Sequences, FiniteSets, TLC

\* Bounds of the model: the longest domain list and the largest -c value.
MaxN == 2
MaxC == 2

VARIABLES
    n,            \* len(domains)
    concurrency,  \* the concurrency argument of CheckDomains
    caller,       \* who reads resultChan: "callback" or "tui"
    cancelled,    \* ctx.Done() is closed
    dpc,          \* position of the CheckDomains goroutine
    idx,          \* number of loop iterations that have spawned their task
    wg,           \* sync.WaitGroup counter
    semaphore,    \* number of tokens in the semaphore channel
    tpc,          \* position of each task goroutine
    result,       \* the Result each task got from CheckDomain
    outcome,      \* how each task ended: published, discarded, dropped
    resultChan,   \* buffered channel: the tasks whose Result is queued
    closes,       \* number of close(resultChan) calls executed
    panicked,     \* the process died of "send on closed channel"
    cpc,          \* position of the consumer loop
    delivered,    \* per task, number of Results handed to the callback / appended
    probes,       \* per task, number of CheckDomain calls
    sent,         \* per task, number of Results sent on resultChan
    released,     \* per task, number of tokens taken back from the semaphore
    wgDone,       \* per task, number of wg.Done() calls
    whois,        \* per task, what cmd.Output() came to
    ctxDoneAt,    \* where the dispatcher stood (idx, dpc) when cancel() ran
    cmdOutput,    \* CheckDomain: what cmd.Output() returned, [output, err]
    checked,      \* CheckDomain: the Result it returned
    viewIn,       \* the renderers: [results, showOnlyAvail] they are given
    viewOut,      \* the renderers: what printResult, formatResult and View show
    flags,        \* main: the command line flags, and what the machine offers
    ran,          \* main: what run() did
    m,            \* tui: the Model
    handed,       \* tui: the domains startChecking hands to CheckDomains
    sharedResults, \* tui: the package-level *asyncResults
    cmds,         \* tui: the command goroutine of each run started so far
    pending,      \* tui: the tickMsg and checkDoneMsg not yet given to Update
    upd,          \* UpdateTLDFile: its position and local variables
    file          \* UpdateTLDFile: the target file on disk

schedVars == <<n, concurrency, caller, cancelled, dpc, idx, wg, semaphore, tpc,
               result, outcome, resultChan, closes, panicked, cpc, delivered,
               probes, sent, released, wgDone, whois, ctxDoneAt>>
clsVars == <<cmdOutput, checked>>
viewVars == <<viewIn, viewOut>>
updVars == <<upd, file>>
cliVars == <<flags, ran, updVars>>
tuiRun == <<sharedResults, cmds, pending>>
tuiVars == <<m, handed, tuiRun>>

\* Everything but the scheduler's state.
offSched == <<clsVars, viewVars, cliVars, tuiVars>>

vars == <<schedVars, offSched>>

\* The parts of the program that a specification does not exercise stay as
\* they are before they are used.
NotYet == "notyet"
ClsIdle == cmdOutput = NotYet /\ checked = NotYet
ViewIdle == viewIn = NotYet /\ viewOut = NotYet
UpdIdle == upd = NotYet /\ file = NotYet
CliIdle == flags = NotYet /\ ran = NotYet /\ UpdIdle
TuiIdle ==
    /\ m = NotYet /\ handed = NotYet
    /\ sharedResults = NotYet /\ cmds = NotYet /\ pending = NotYet

Tasks == 1..MaxN
Domains == 1..n

\* What cmd.Output() can come to, as far as the scheduler can tell: nothing
\* captured and an error, or some text (with or without a nonzero exit).
WhoisRuns == {"nooutput", "output"}

CheckDomainLosesError(d, run) == [Domain |-> d, Error |-> FALSE]

\* CheckDomain: no output at all gives a Result with Error set; otherwise the
\* text is classified and Error stays nil.  Available and ExpiryDate are
\* functions of the text alone and play no part in the scheduling.
CheckDomain(d, run) == [Domain |-> d, Error |-> (run = "nooutput")]

NoResult == [Domain |-> 0, Error |-> FALSE]

\* make(chan Result, len(domains)) in both callers.
ChanOneShort(len) == len - 1
ChanCap(len) == len

Init ==
    /\ n \in 0..MaxN
    /\ concurrency \in 0..MaxC
    /\ caller \in {"callback", "tui"}
    /\ cancelled \in BOOLEAN
    /\ dpc = "loop"
    /\ idx = 0
    /\ wg = 0
    /\ semaphore = 0
    /\ tpc = [t \in Tasks |-> "idle"]
    /\ result = [t \in Tasks |-> NoResult]
    /\ outcome = [t \in Tasks |-> "none"]
    /\ resultChan = <<>>
    /\ closes = 0
    /\ panicked = FALSE
    /\ cpc = "range"
    /\ delivered = [t \in Tasks |-> 0]
    /\ probes = [t \in Tasks |-> 0]
    /\ sent = [t \in Tasks |-> 0]
    /\ released = [t \in Tasks |-> 0]
    /\ wgDone = [t \in Tasks |-> 0]
    /\ whois = [t \in Tasks |-> "notrun"]
    /\ ctxDoneAt = IF cancelled THEN [idx |-> 0, dpc |-> "loop"]
                                ELSE [idx |-> -1, dpc |-> "never"]
    /\ ClsIdle /\ ViewIdle /\ CliIdle /\ TuiIdle

\* cancel(): closes ctx.Done(); it stays closed.
Cancel ==
    /\ ~panicked
    /\ ~cancelled
    /\ cancelled' = TRUE
    /\ ctxDoneAt' = [idx |-> idx, dpc |-> dpc]
    /\ UNCHANGED <<n, concurrency, caller, dpc, idx, wg, semaphore, tpc, result,
                   outcome, resultChan, closes, panicked, cpc, delivered,
                   probes, sent, released, wgDone, whois>>
    /\ UNCHANGED offSched

\* The dispatcher's select on ctx.Done() with a default case.
DispatcherNeverLooks(done) == FALSE
DispatcherSeesDone(done) == done

\* The head of the for loop: range exhausted, ctx.Done() ready, or wg.Add(1).
LoopHead ==
    /\ ~panicked
    /\ dpc = "loop"
    /\ IF idx = n
       THEN /\ dpc' = "wait"
            /\ wg' = wg
       ELSE IF DispatcherSeesDone(cancelled)
            THEN /\ dpc' = "returned"
                 /\ wg' = wg
            ELSE /\ dpc' = "acquire"
                 /\ wg' = wg + 1
    /\ UNCHANGED <<n, concurrency, caller, cancelled, idx, semaphore, tpc,
                   result, outcome, resultChan, closes, panicked, cpc,
                   delivered, probes, sent, released, wgDone, whois, ctxDoneAt>>
    /\ UNCHANGED offSched

\* A send on the semaphore channel can proceed.
SemOneTooMany(tokens, cap) == tokens <= cap
SemHasRoom(tokens, cap) == tokens < cap

\* semaphore <- struct{}{} followed by the go statement.
Acquire ==
    /\ ~panicked
    /\ dpc = "acquire"
    /\ SemHasRoom(semaphore, concurrency)
    /\ semaphore' = semaphore + 1
    /\ tpc' = [tpc EXCEPT ![idx + 1] = "start"]
    /\ idx' = idx + 1
    /\ dpc' = "loop"
    /\ UNCHANGED <<n, concurrency, caller, cancelled, wg, result, outcome,
                   resultChan, closes, panicked, cpc, delivered, probes, sent,
                   released, wgDone, whois, ctxDoneAt>>
    /\ UNCHANGED offSched

\* wg.Wait() can return.
WaitGroupIgnored(counter) == TRUE
WaitGroupZero(counter) == counter = 0

\* wg.Wait() returns, and CheckDomains with it.
WgWait ==
    /\ ~panicked
    /\ dpc = "wait"
    /\ WaitGroupZero(wg)
    /\ dpc' = "returned"
    /\ UNCHANGED <<n, concurrency, caller, cancelled, idx, wg, semaphore, tpc,
                   result, outcome, resultChan, closes, panicked, cpc,
                   delivered, probes, sent, released, wgDone, whois, ctxDoneAt>>
    /\ UNCHANGED offSched

\* close(resultChan) in the goroutine that called CheckDomains.
CloseChan ==
    /\ ~panicked
    /\ dpc = "returned"
    /\ dpc' = "closed"
    /\ closes' = closes + 1
    /\ UNCHANGED <<n, concurrency, caller, cancelled, idx, wg, semaphore, tpc,
                   result, outcome, resultChan, panicked, cpc, delivered,
                   probes, sent, released, wgDone, whois, ctxDoneAt>>
    /\ UNCHANGED offSched

\* Where a task goes from its first select: out (through the two deferred
\* calls), or into CheckDomain.
CtxCheckIgnored(done) == "probe"
CtxCheckSkipsDefers(done) == IF done THEN "done" ELSE "probe"
CtxCheckSkipsRelease(done) == IF done THEN "wgdone" ELSE "probe"
AfterCtxCheck(done) == IF done THEN "release" ELSE "probe"

\* The task's first select on ctx.Done().
TaskCtxCheck(t) ==
    /\ ~panicked
    /\ tpc[t] = "start"
    /\ tpc' = [tpc EXCEPT ![t] = AfterCtxCheck(cancelled)]
    /\ outcome' = [outcome EXCEPT ![t] = IF tpc'[t] = "probe" THEN @ ELSE "dropped"]
    /\ UNCHANGED <<n, concurrency, caller, cancelled, dpc, idx, wg, semaphore,
                   result, resultChan, closes, panicked, cpc, delivered,
                   probes, sent, released, wgDone, whois, ctxDoneAt>>
    /\ UNCHANGED offSched

\* result := CheckDomain(d), whatever whois comes to.
TaskProbe(t) ==
    /\ ~panicked
    /\ tpc[t] = "probe"
    /\ \E run \in WhoisRuns :
          /\ whois' = [whois EXCEPT ![t] = run]
          /\ result' = [result EXCEPT ![t] = CheckDomain(t, run)]
    /\ probes' = [probes EXCEPT ![t] = @ + 1]
    /\ tpc' = [tpc EXCEPT ![t] = "publish"]
    /\ UNCHANGED <<n, concurrency, caller, cancelled, dpc, idx, wg, semaphore,
                   outcome, resultChan, closes, panicked, cpc, delivered, sent,
                   released, wgDone, ctxDoneAt>>
    /\ UNCHANGED offSched

\* The cases of the publishing select that can proceed: the send (a send on a
\* closed channel proceeds, and panics) and the receive from ctx.Done().
CanSend(queue, cap, isClosed) == isClosed \/ Len(queue) < cap
CanSkip(done) == done

\* select { case resultChan <- result: ; case <-ctx.Done(): }
TaskPublish(t) ==
    /\ ~panicked
    /\ tpc[t] = "publish"
    /\ \/ /\ CanSend(resultChan, ChanCap(n), closes > 0)
          /\ IF closes > 0
             THEN /\ panicked' = TRUE
                  /\ UNCHANGED <<resultChan, sent, outcome, tpc>>
             ELSE /\ resultChan' = Append(resultChan, t)
                  /\ sent' = [sent EXCEPT ![t] = @ + 1]
                  /\ outcome' = [outcome EXCEPT ![t] = "published"]
                  /\ tpc' = [tpc EXCEPT ![t] = "release"]
                  /\ UNCHANGED panicked
       \/ /\ CanSkip(cancelled)
          /\ outcome' = [outcome EXCEPT ![t] = "discarded"]
          /\ tpc' = [tpc EXCEPT ![t] = "release"]
          /\ UNCHANGED <<resultChan, sent, panicked>>
    /\ UNCHANGED <<n, concurrency, caller, cancelled, dpc, idx, wg, semaphore,
                   result, closes, cpc, delivered, probes, released, wgDone,
                   whois, ctxDoneAt>>
    /\ UNCHANGED offSched

\* defer func() { <-semaphore }()
TaskRelease(t) ==
    /\ ~panicked
    /\ tpc[t] = "release"
    /\ semaphore > 0
    /\ semaphore' = semaphore - 1
    /\ released' = [released EXCEPT ![t] = @ + 1]
    /\ tpc' = [tpc EXCEPT ![t] = "wgdone"]
    /\ UNCHANGED <<n, concurrency, caller, cancelled, dpc, idx, wg, result,
                   outcome, resultChan, closes, panicked, cpc, delivered,
                   probes, sent, wgDone, whois, ctxDoneAt>>
    /\ UNCHANGED offSched

\* defer wg.Done()
TaskWgDone(t) ==
    /\ ~panicked
    /\ tpc[t] = "wgdone"
    /\ wg' = wg - 1
    /\ wgDone' = [wgDone EXCEPT ![t] = @ + 1]
    /\ tpc' = [tpc EXCEPT ![t] = "done"]
    /\ UNCHANGED <<n, concurrency, caller, cancelled, dpc, idx, semaphore,
                   result, outcome, resultChan, closes, panicked, cpc,
                   delivered, probes, sent, released, whois, ctxDoneAt>>
    /\ UNCHANGED offSched

\* The consumer's own look at ctx.Done(): CheckDomainsWithCallback returns
\* without calling back; the TUI's loop has no such check.
ConsumerAlwaysStops(who, done) == who = "callback"
ConsumerNeverLooks(who, done) == FALSE
ConsumerStops(who, done) == who = "callback" /\ done

\* One iteration of "for result := range resultChan".
ConsumerRecv ==
    /\ ~panicked
    /\ cpc = "range"
    /\ resultChan # <<>>
    /\ resultChan' = Tail(resultChan)
    /\ IF ConsumerStops(caller, cancelled)
       THEN /\ cpc' = "returned"
            /\ UNCHANGED delivered
       ELSE /\ delivered' = [delivered EXCEPT ![Head(resultChan)] = @ + 1]
            /\ UNCHANGED cpc
    /\ UNCHANGED <<n, concurrency, caller, cancelled, dpc, idx, wg, semaphore,
                   tpc, result, outcome, closes, panicked, probes, sent,
                   released, wgDone, whois, ctxDoneAt>>
    /\ UNCHANGED offSched

\* The range loop ends: the channel is closed and drained.
ConsumerEnd ==
    /\ ~panicked
    /\ cpc = "range"
    /\ resultChan = <<>>
    /\ closes > 0
    /\ cpc' = "returned"
    /\ UNCHANGED <<n, concurrency, caller, cancelled, dpc, idx, wg, semaphore,
                   tpc, result, outcome, resultChan, closes, panicked,
                   delivered, probes, sent, released, wgDone, whois, ctxDoneAt>>
    /\ UNCHANGED offSched

Next ==
    \/ Cancel
    \/ LoopHead
    \/ Acquire
    \/ WgWait
    \/ CloseChan
    \/ \E t \in Tasks : TaskCtxCheck(t)
    \/ \E t \in Tasks : TaskProbe(t)
    \/ \E t \in Tasks : TaskPublish(t)
    \/ \E t \in Tasks : TaskRelease(t)
    \/ \E t \in Tasks : TaskWgDone(t)
    \/ ConsumerRecv
    \/ ConsumerEnd

Spec == Init /\ [][Next]_vars

\* The Go scheduler runs every goroutine that can take a step; a started whois
\* run ends.  Nothing obliges anyone to cancel.
Fairness ==
    /\ WF_vars(LoopHead)
    /\ WF_vars(Acquire)
    /\ WF_vars(WgWait)
    /\ WF_vars(CloseChan)
    /\ WF_vars(ConsumerRecv)
    /\ WF_vars(ConsumerEnd)
    /\ \A t \in Tasks :
          /\ WF_vars(TaskCtxCheck(t))
          /\ WF_vars(TaskProbe(t))
          /\ WF_vars(TaskPublish(t))
          /\ WF_vars(TaskRelease(t))
          /\ WF_vars(TaskWgDone(t))

FairSpec == Spec /\ Fairness

----------------------------------------------------------------------------
\* The scheduler before a run, for the specifications of the other parts.
SchedIdle ==
    /\ n = 0 /\ concurrency = 0 /\ caller = "callback" /\ cancelled = FALSE
    /\ dpc = "loop" /\ idx = 0 /\ wg = 0 /\ semaphore = 0
    /\ tpc = [t \in Tasks |-> "idle"]
    /\ result = [t \in Tasks |-> NoResult]
    /\ outcome = [t \in Tasks |-> "none"]
    /\ resultChan = <<>> /\ closes = 0 /\ panicked = FALSE /\ cpc = "range"
    /\ delivered = [t \in Tasks |-> 0]
    /\ probes = [t \in Tasks |-> 0]
    /\ sent = [t \in Tasks |-> 0]
    /\ released = [t \in Tasks |-> 0]
    /\ wgDone = [t \in Tasks |-> 0]
    /\ whois = [t \in Tasks |-> "notrun"]
    /\ ctxDoneAt = [idx |-> -1, dpc |-> "never"]

----------------------------------------------------------------------------
(***************************************************************************)
(* CheckDomain on one whois output.  The output is a sequence of pieces of *)
(* text, each standing for what the regular expressions tell apart:        *)
(*   "avail"  a phrase of availablePatterns        ("No match")            *)
(*   "reg"    a phrase of registeredPattern        ("Creation Date")       *)
(*   "label"  a label of expiryPattern             ("Registry Expiry Date")*)
(*   "expir"  other text containing "expir"        ("expires on")          *)
(*   "sep"    a colon, blank or tab                                        *)
(*   "nl"     a line feed                                                  *)
(*   "d1", "d2"  two dates of the form 2030-01-01                          *)
(*   "word"   any other text                                               *)
(***************************************************************************)
\* Longest whois output, in pieces.
MaxLen == 4

Pieces == {"avail", "reg", "label", "expir", "sep", "nl", "d1", "d2", "word"}
Dates == {"d1", "d2"}

RECURSIVE TextsOfLen(_)
TextsOfLen(k) ==
    IF k = 0 THEN {<<>>}
    ELSE {Append(t, p) : t \in TextsOfLen(k - 1), p \in Pieces}

Texts == UNION {TextsOfLen(k) : k \in 0..MaxLen}

\* What cmd.Output() returns: a nil slice or some bytes, and an error or none.
CmdOutputs ==
    {[isNil |-> TRUE, text |-> <<>>, err |-> e] : e \in BOOLEAN}
    \cup {[isNil |-> FALSE, text |-> t, err |-> e] : t \in Texts, e \in BOOLEAN}

Unchecked == [done |-> FALSE, Available |-> FALSE, ExpiryDate |-> "", Error |-> FALSE]

\* availablePatterns.MatchString and registeredPattern.MatchString.
MatchAvailable(text) == \E i \in 1..Len(text) : text[i] = "avail"
MatchRegistered(text) == \E i \in 1..Len(text) : text[i] = "reg"

\* [:\s]+ takes colons, blanks and line feeds alike.
SameLineOnly(piece) == piece = "sep"
IsSeparator(piece) == piece \in {"sep", "nl"}

\* expiryPattern tried at piece i: the label, one or more separators, a date.
\* The date it captures, or "" when it does not match there.
RECURSIVE AfterSeparators(_, _, _)
AfterSeparators(text, j, seen) ==
    IF j > Len(text) THEN ""
    ELSE IF IsSeparator(text[j]) THEN AfterSeparators(text, j + 1, TRUE)
    ELSE IF seen /\ text[j] \in Dates THEN text[j]
    ELSE ""

ExpiryPatternAt(text, i) ==
    IF text[i] = "label" THEN AfterSeparators(text, i + 1, FALSE) ELSE ""

\* expiryPattern.FindStringSubmatch: the leftmost match.
RECURSIVE FindLabeled(_, _)
FindLabeled(text, i) ==
    IF i > Len(text) THEN ""
    ELSE IF ExpiryPatternAt(text, i) # "" THEN ExpiryPatternAt(text, i)
    ELSE FindLabeled(text, i + 1)

\* The second pass, over the lines of strings.Split(whoisOutput, "\n"): `has`
\* says that the line read so far contains "expir", `date` is its first date.
RECURSIVE ScanLines(_, _, _, _)
ScanLines(text, i, has, date) ==
    IF i > Len(text) THEN (IF has THEN date ELSE "")
    ELSE IF text[i] = "nl"
         THEN IF has /\ date # "" THEN date
              ELSE ScanLines(text, i + 1, FALSE, "")
    ELSE ScanLines(text, i + 1,
                   has \/ text[i] \in {"label", "expir"},
                   IF date = "" /\ text[i] \in Dates THEN text[i] ELSE date)

\* extractExpiryDate
extractExpiryDate(text) ==
    IF FindLabeled(text, 1) # "" THEN FindLabeled(text, 1)
    ELSE ScanLines(text, 1, FALSE, "")

ClassifyRegisteredFirst(text) ==
    IF MatchRegistered(text)
    THEN [done |-> TRUE, Available |-> FALSE,
          ExpiryDate |-> extractExpiryDate(text), Error |-> FALSE]
    ELSE [done |-> TRUE, Available |-> TRUE, ExpiryDate |-> "", Error |-> FALSE]

\* CheckDomain from "whoisOutput := string(output)" on.
Classify(text) ==
    IF MatchAvailable(text)
    THEN [done |-> TRUE, Available |-> TRUE, ExpiryDate |-> "", Error |-> FALSE]
    ELSE IF MatchRegistered(text)
    THEN [done |-> TRUE, Available |-> FALSE,
          ExpiryDate |-> extractExpiryDate(text), Error |-> FALSE]
    ELSE [done |-> TRUE, Available |-> TRUE, ExpiryDate |-> "", Error |-> FALSE]

\* The one hard failure: an error and a nil output.
FailsOnAnyError(o) == o.err
ProbeFailed(o) == o.err /\ o.isNil

\* CheckDomain, given what cmd.Output() returned.
CheckDomainOutput(o) ==
    IF ProbeFailed(o)
    THEN [done |-> TRUE, Available |-> FALSE, ExpiryDate |-> "", Error |-> TRUE]
    ELSE Classify(o.text)

ClsInit ==
    /\ cmdOutput \in CmdOutputs
    /\ checked = Unchecked
    /\ SchedIdle /\ ViewIdle /\ CliIdle /\ TuiIdle

CheckDomainCall ==
    /\ ~checked.done
    /\ checked' = CheckDomainOutput(cmdOutput)
    /\ UNCHANGED <<cmdOutput, schedVars, viewVars, cliVars, tuiVars>>

ClsNext == CheckDomainCall

ClsSpec == ClsInit /\ [][ClsNext]_vars

HasPiece(text, piece) == \E i \in 1..Len(text) : text[i] = piece

\* C11: the verdict follows three rules in order: an availability phrase gives
\* Available with no expiry, also next to a registration phrase; otherwise a
\* registration phrase gives Registered; otherwise Available with no expiry.
\* Every text gets its verdict and none fails.
C11_ThreeTierRule ==
    /\ ~checked.done => ENABLED CheckDomainCall
    /\ (checked.done /\ ~(cmdOutput.isNil /\ cmdOutput.err)) =>
        /\ ~checked.Error
        /\ HasPiece(cmdOutput.text, "avail") =>
              checked.Available /\ checked.ExpiryDate = ""
        /\ (~HasPiece(cmdOutput.text, "avail") /\ HasPiece(cmdOutput.text, "reg")) =>
              ~checked.Available
        /\ (~HasPiece(cmdOutput.text, "avail") /\ ~HasPiece(cmdOutput.text, "reg")) =>
              checked.Available /\ checked.ExpiryDate = ""

C11_Witness ==
    /\ checked.done /\ checked.Available /\ checked.ExpiryDate = ""
    /\ HasPiece(cmdOutput.text, "avail") /\ HasPiece(cmdOutput.text, "reg")
    /\ HasPiece(cmdOutput.text, "label") /\ HasPiece(cmdOutput.text, "d1")

\* C12: Error is set only when whois gave no output at all; any output, also
\* with a nonzero exit, is classified and carries no Error.
C12_ErrorOnlyWithoutOutput ==
    checked.done =>
        /\ checked.Error => cmdOutput.isNil
        /\ ~cmdOutput.isNil =>
              /\ ~checked.Error
              /\ checked.Available <=>
                    (HasPiece(cmdOutput.text, "avail") \/ ~HasPiece(cmdOutput.text, "reg"))

C12_Witness ==
    /\ checked.done /\ ~cmdOutput.isNil /\ cmdOutput.err
    /\ ~checked.Error /\ ~checked.Available /\ checked.ExpiryDate = "d2"

\* The order a, b, c of expiry extraction, with the separators a labeled
\* field may be followed by left open: (a) the date of the leftmost label
\* that is followed by separators and a date; (b) otherwise the first date of
\* the first line that contains "expir" and a date; (c) otherwise nothing.
OnSameLine(text, i, j) ==
    \A k \in 1..Len(text) : (k > i /\ k < j) \/ (k > j /\ k < i) => text[k] # "nl"

LabeledFields(text, Sep(_)) ==
    {p \in (1..Len(text)) \X (1..Len(text)) :
        /\ text[p[1]] = "label" /\ p[2] >= p[1] + 2 /\ text[p[2]] \in Dates
        /\ \A k \in (p[1] + 1)..(p[2] - 1) : Sep(text[k])}

DatesOnExpirLines(text) ==
    {j \in 1..Len(text) :
        /\ text[j] \in Dates
        /\ \E k \in 1..Len(text) :
              text[k] \in {"label", "expir"} /\ OnSameLine(text, k, j)}

ExpiryInOrder(text, Sep(_)) ==
    IF LabeledFields(text, Sep) # {}
    THEN text[(CHOOSE p \in LabeledFields(text, Sep) :
                 \A q \in LabeledFields(text, Sep) : p[1] <= q[1])[2]]
    ELSE IF DatesOnExpirLines(text) # {}
    THEN text[CHOOSE j \in DatesOnExpirLines(text) :
                 \A k \in DatesOnExpirLines(text) : j <= k]
    ELSE ""

ColonOrBlank(piece) == piece = "sep"
ColonBlankOrLineFeed(piece) == piece \in {"sep", "nl"}

\* C13 as stated: expiry extraction runs for Registered verdicts only and
\* follows a, b, c, where the labeled field of (a) has its date on the same
\* line, after colons or blanks.
C13_SameLineLabel ==
    (checked.done /\ ~checked.Error) =>
        checked.ExpiryDate =
            IF checked.Available THEN ""
            ELSE ExpiryInOrder(cmdOutput.text, ColonOrBlank)

\* C13 amended: the same order, where the labeled field of (a) is followed by
\* one or more colons, blanks or line feeds and then the date, so that the
\* date may stand on a later line than its label.
C13_LabelAcrossLines ==
    (checked.done /\ ~checked.Error) =>
        checked.ExpiryDate =
            IF checked.Available THEN ""
            ELSE ExpiryInOrder(cmdOutput.text, ColonBlankOrLineFeed)

C13_Witness ==
    /\ checked.done /\ ~checked.Available
    /\ cmdOutput.text = <<"reg", "label", "nl", "d1">>
    /\ checked.ExpiryDate = "d1"

----------------------------------------------------------------------------
(***************************************************************************)
(* The consumers' rendering of Results: printResult of the command line,   *)
(* formatResult and the totals of Model.View in the TUI.                    *)
(***************************************************************************)
\* Longest list of Results rendered.
MaxResults == 3

\* The Results CheckDomain can return: Error set (Available left false), or
\* available, or taken with or without an expiry date.
ResultKinds ==
    {[Available |-> FALSE, ExpiryDate |-> "", Error |-> TRUE],
     [Available |-> TRUE, ExpiryDate |-> "", Error |-> FALSE],
     [Available |-> FALSE, ExpiryDate |-> "", Error |-> FALSE],
     [Available |-> FALSE, ExpiryDate |-> "d1", Error |-> FALSE]}

RECURSIVE ResultLists(_)
ResultLists(k) ==
    IF k = 0 THEN {<<>>}
    ELSE {Append(l, r) : l \in ResultLists(k - 1), r \in ResultKinds}

\* printResult: the tag it prints and the expiry it shows, "hidden" when it
\* prints nothing.
printResult(r, showOnlyAvail) ==
    IF r.Error THEN [tag |-> "error", exp |-> ""]
    ELSE IF r.Available THEN [tag |-> "avail", exp |-> ""]
    ELSE IF showOnlyAvail THEN [tag |-> "hidden", exp |-> ""]
    ELSE IF r.ExpiryDate # "" THEN [tag |-> "taken", exp |-> r.ExpiryDate]
    ELSE [tag |-> "taken", exp |-> "none found"]

\* formatResult
formatResult(r, showOnlyAvail) ==
    IF r.Error THEN [tag |-> "error", exp |-> ""]
    ELSE IF r.Available THEN [tag |-> "avail", exp |-> ""]
    ELSE IF showOnlyAvail THEN [tag |-> "hidden", exp |-> ""]
    ELSE IF r.ExpiryDate # "" THEN [tag |-> "taken", exp |-> r.ExpiryDate]
    ELSE [tag |-> "taken", exp |-> ""]

\* availCount of Model.View.
RECURSIVE AvailCount(_)
AvailCount(results) ==
    IF results = <<>> THEN 0
    ELSE (IF Head(results).Available THEN 1 ELSE 0) + AvailCount(Tail(results))

\* The "Total: checked, available, taken" line of Model.View.
ViewTotals(results) ==
    [checked |-> Len(results),
     available |-> AvailCount(results),
     taken |-> Len(results) - AvailCount(results)]

NotRendered ==
    [cli |-> FALSE, tui |-> FALSE, lines |-> <<>>,
     totals |-> [checked |-> 0, available |-> 0, taken |-> 0]]

ViewInit ==
    /\ viewIn \in {[results |-> l, showOnlyAvail |-> f] :
                     l \in UNION {ResultLists(k) : k \in 0..MaxResults},
                     f \in BOOLEAN}
    /\ viewOut = NotRendered
    /\ SchedIdle /\ ClsIdle /\ CliIdle /\ TuiIdle

\* The callback of run: printResult for each Result.
CliPrint ==
    /\ ~viewOut.cli /\ ~viewOut.tui
    /\ viewOut' = [NotRendered EXCEPT
                     !.cli = TRUE,
                     !.lines = [i \in 1..Len(viewIn.results) |->
                                  printResult(viewIn.results[i], viewIn.showOnlyAvail)]]
    /\ UNCHANGED <<viewIn, schedVars, clsVars, cliVars, tuiVars>>

\* Model.View in stateResults.
TuiView ==
    /\ ~viewOut.cli /\ ~viewOut.tui
    /\ viewOut' = [NotRendered EXCEPT
                     !.tui = TRUE,
                     !.lines = [i \in 1..Len(viewIn.results) |->
                                  formatResult(viewIn.results[i], viewIn.showOnlyAvail)],
                     !.totals = ViewTotals(viewIn.results)]
    /\ UNCHANGED <<viewIn, schedVars, clsVars, cliVars, tuiVars>>

ViewNext == CliPrint \/ TuiView

ViewSpec == ViewInit /\ [][ViewNext]_vars

NumberOf(results, Counts(_)) ==
    Cardinality({i \in 1..Len(results) : Counts(results[i])})
IsAvailable(r) == ~r.Error /\ r.Available
IsTaken(r) == ~r.Error /\ ~r.Available

\* C14: a Result with Error set is shown with the error tag by printResult
\* and by formatResult, and the totals of the TUI count it neither as
\* available nor as taken.
C14_ErrorNotClassified ==
    /\ (viewOut.cli \/ viewOut.tui) =>
          \A i \in 1..Len(viewIn.results) :
              viewIn.results[i].Error => viewOut.lines[i].tag = "error"
    /\ viewOut.tui =>
          /\ viewOut.totals.available = NumberOf(viewIn.results, IsAvailable)
          /\ viewOut.totals.taken = NumberOf(viewIn.results, IsTaken)

----------------------------------------------------------------------------
(***************************************************************************)
(* run of package main: the flags, and what it does with them.             *)
(***************************************************************************)
\* The flag values that run tells apart, and what the machine offers: whois
\* on the PATH, a readable -E file, a fetch of the IANA list that works.
FlagSets ==
    [keyword : {"", "mycompany"}, singleTLD : {"", "com"},
     tldFile : {"", "tlds.txt"}, onlyAvail : BOOLEAN, updateTLD : BOOLEAN,
     interactive : BOOLEAN, whoisFound : BOOLEAN, fileReadable : BOOLEAN,
     fetchWorks : BOOLEAN]

NotRun == [done |-> FALSE, err |-> "", fetched |-> FALSE, tui |-> FALSE,
           checking |-> FALSE]

\* --update-tld next to another flag.
UpdateConflict(f) ==
    f.keyword # "" \/ f.singleTLD # "" \/ f.tldFile # "" \/ f.onlyAvail
        \/ f.interactive

\* The checks of the arguments in CLI mode: the error, or "" for none.
CliArgsErrorLax(f) ==
    IF f.keyword = "" THEN "keyword is required"
    ELSE IF f.singleTLD = "" /\ f.tldFile = "" THEN "either -e or -E option is required"
    ELSE ""
CliArgsError(f) ==
    IF f.keyword = "" THEN "keyword is required"
    ELSE IF f.singleTLD # "" /\ f.tldFile # "" THEN "only one of -e or -E"
    ELSE IF f.singleTLD = "" /\ f.tldFile = "" THEN "either -e or -E option is required"
    ELSE ""

\* run
run(f) ==
    IF ~f.whoisFound THEN [NotRun EXCEPT !.done = TRUE, !.err = "whois not installed"]
    ELSE IF f.updateTLD
    THEN IF UpdateConflict(f)
         THEN [NotRun EXCEPT !.done = TRUE, !.err = "--update-tld with other flags"]
         ELSE [NotRun EXCEPT !.done = TRUE, !.fetched = TRUE,
                             !.err = IF f.fetchWorks THEN "" ELSE "failed to fetch"]
    ELSE IF f.interactive THEN [NotRun EXCEPT !.done = TRUE, !.tui = TRUE]
    ELSE IF CliArgsError(f) # "" THEN [NotRun EXCEPT !.done = TRUE, !.err = CliArgsError(f)]
    ELSE IF f.singleTLD = "" /\ ~f.fileReadable
    THEN [NotRun EXCEPT !.done = TRUE, !.err = "TLD file not found"]
    ELSE [NotRun EXCEPT !.done = TRUE, !.checking = TRUE]

CliInit ==
    /\ flags \in FlagSets
    /\ ran = NotRun
    /\ SchedIdle /\ ClsIdle /\ ViewIdle /\ TuiIdle /\ UpdIdle

\* rootCmd.Execute() calls run once.
Execute ==
    /\ ~ran.done
    /\ ran' = run(flags)
    /\ UNCHANGED <<flags, updVars, schedVars, clsVars, viewVars, tuiVars>>

CliNext == Execute

CliSpec == CliInit /\ [][CliNext]_vars

ExactlyOneTLDSource(f) == (f.singleTLD # "") # (f.tldFile # "")

\* C18: without --interactive and --update-tld, run starts the check only
\* with a keyword and exactly one of -e and -E, and otherwise returns an error
\* with no check started; --update-tld next to -k, -e, -E, -x or -i returns an
\* error and fetches nothing.
C18_FlagValidation ==
    ran.done =>
        /\ (~flags.updateTLD /\ ~flags.interactive) =>
              /\ ran.checking => (flags.keyword # "" /\ ExactlyOneTLDSource(flags))
              /\ ~(flags.keyword # "" /\ ExactlyOneTLDSource(flags)) =>
                    (ran.err # "" /\ ~ran.checking)
              /\ ~ran.fetched /\ ~ran.tui
        /\ (flags.updateTLD /\ (flags.keyword # "" \/ flags.singleTLD # ""
                \/ flags.tldFile # "" \/ flags.onlyAvail \/ flags.interactive)) =>
              (ran.err # "" /\ ~ran.fetched /\ ~ran.checking /\ ~ran.tui)

C18_Witness ==
    /\ ran.done /\ flags.whoisFound /\ ~flags.updateTLD /\ ~flags.interactive
    /\ flags.keyword # "" /\ flags.singleTLD # "" /\ flags.tldFile # ""
    /\ ran.err = "only one of -e or -E" /\ ~ran.checking

----------------------------------------------------------------------------
(***************************************************************************)
(* UpdateTLDFile: fetch the IANA list, turn it into TLDs, write the file.  *)
(***************************************************************************)
\* Longest response body, in lines.
MaxLines == 2

\* http.StatusOK
StatusOK == 200

\* What the server may answer with.
Statuses == {StatusOK, 404}

\* A line of the body: what it starts with, then a name or nothing.
Lines == [lead : {"", "#", " "}, name : {"", "COM"}]

RECURSIVE BodiesOfLen(_)
BodiesOfLen(k) ==
    IF k = 0 THEN {<<>>}
    ELSE {Append(b, l) : b \in BodiesOfLen(k - 1), l \in Lines}

Bodies == UNION {BodiesOfLen(k) : k \in 0..MaxLines}

\* "." + strings.ToLower(line)
DotLower(name) == IF name = "COM" THEN ".com" ELSE "."

\* One turn of the scanner loop: the TLD of the line, or nothing.
ScanLine(line) ==
    IF line.lead = "#" THEN <<>>
    ELSE IF line.name = "" THEN <<>>
    ELSE <<DotLower(line.name)>>

RECURSIVE ScanBody(_)
ScanBody(body) ==
    IF body = <<>> THEN <<>>
    ELSE ScanLine(Head(body)) \o ScanBody(Tail(body))

\* The target file before the call: missing, or holding an older list.
FilesBefore == {[exists |-> FALSE, lines |-> <<>>],
                [exists |-> TRUE, lines |-> <<".old">>]}

UpdStart(f) ==
    [pc |-> "get", respErr |-> FALSE, status |-> 0, readErr |-> FALSE,
     body |-> <<>>, scanned |-> FALSE, tlds |-> <<>>, written |-> 0,
     err |-> "", created |-> FALSE, before |-> f]

UpdInit ==
    /\ file \in FilesBefore
    /\ upd = UpdStart(file)
    /\ flags = NotYet /\ ran = NotYet
    /\ SchedIdle /\ ClsIdle /\ ViewIdle /\ TuiIdle

\* resp.StatusCode != http.StatusOK
AnyStatus(status) == TRUE
IsOK(status) == status = StatusOK

\* http.Get and the status test.
HttpGet ==
    /\ upd.pc = "get"
    /\ \/ upd' = [upd EXCEPT !.respErr = TRUE, !.pc = "returned",
                             !.err = "failed to fetch TLD list"]
       \/ \E st \in Statuses :
            upd' = IF IsOK(st)
                   THEN [upd EXCEPT !.status = st, !.pc = "readall"]
                   ELSE [upd EXCEPT !.status = st, !.pc = "returned",
                                    !.err = "failed to fetch TLD list: HTTP"]
    /\ UNCHANGED <<file, flags, ran, schedVars, clsVars, viewVars, tuiVars>>

\* io.ReadAll(resp.Body)
ReadAll ==
    /\ upd.pc = "readall"
    /\ \/ upd' = [upd EXCEPT !.readErr = TRUE, !.pc = "returned",
                             !.err = "failed to read response"]
       \/ \E b \in Bodies : upd' = [upd EXCEPT !.body = b, !.pc = "scan"]
    /\ UNCHANGED <<file, flags, ran, schedVars, clsVars, viewVars, tuiVars>>

\* The scanner loop over the body.
Scan ==
    /\ upd.pc = "scan"
    /\ upd' = [upd EXCEPT !.tlds = ScanBody(upd.body), !.scanned = TRUE,
                          !.pc = "create"]
    /\ UNCHANGED <<file, flags, ran, schedVars, clsVars, viewVars, tuiVars>>

\* os.Create(filepath): it fails and leaves the disk alone, or it creates or
\* truncates the file.
Create ==
    /\ upd.pc = "create"
    /\ \/ /\ upd' = [upd EXCEPT !.pc = "returned", !.err = "failed to create file"]
          /\ UNCHANGED file
       \/ /\ upd' = [upd EXCEPT !.pc = "write", !.created = TRUE]
          /\ file' = [exists |-> TRUE, lines |-> <<>>]
    /\ UNCHANGED <<flags, ran, schedVars, clsVars, viewVars, tuiVars>>

\* fmt.Fprintln(file, tld): its error is not looked at.
WriteLine ==
    /\ upd.pc = "write"
    /\ upd.written < Len(upd.tlds)
    /\ upd' = [upd EXCEPT !.written = @ + 1]
    /\ \/ file' = [file EXCEPT !.lines = Append(@, upd.tlds[upd.written + 1])]
       \/ UNCHANGED file
    /\ UNCHANGED <<flags, ran, schedVars, clsVars, viewVars, tuiVars>>

\* return nil
ReturnNil ==
    /\ upd.pc = "write"
    /\ upd.written = Len(upd.tlds)
    /\ upd' = [upd EXCEPT !.pc = "returned"]
    /\ UNCHANGED <<file, flags, ran, schedVars, clsVars, viewVars, tuiVars>>

UpdNext ==
    \/ HttpGet
    \/ ReadAll
    \/ Scan
    \/ Create
    \/ WriteLine
    \/ ReturnNil

UpdSpec == UpdInit /\ [][UpdNext]_vars

\* The file on disk is as it was before the call.
Untouched == ~upd.created /\ file = upd.before

\* C22: when the request fails, the status is not 200 or reading the body
\* fails, UpdateTLDFile returns an error and the target file is neither
\* created nor truncated; whenever it returns an error the file is as before;
\* and the file is touched only after the whole body was read and scanned.
C22_UntouchedOnFailure ==
    /\ (upd.pc = "returned" /\ (upd.respErr \/ upd.status # StatusOK \/ upd.readErr))
          => (upd.err # "" /\ Untouched)
    /\ upd.err # "" => Untouched
    /\ ~Untouched =>
          /\ ~upd.respErr /\ upd.status = StatusOK /\ ~upd.readErr
          /\ upd.scanned /\ upd.tlds = ScanBody(upd.body)

\* The server answered 404 while an older list was on disk.
C22_Witness ==
    /\ upd.pc = "returned"
    /\ upd.status = 404
    /\ upd.err # ""
    /\ file = [exists |-> TRUE, lines |-> <<".old">>]

----------------------------------------------------------------------------
(***************************************************************************)
(* The TUI: Model.Update on key presses and on the messages of a run, the  *)
(* command goroutine that startChecking returns, and the package-level     *)
(* sharedResults it fills.  The program is followed until it quits.        *)
(***************************************************************************)
\* Longest TLD list of the TUI.
MaxTLDs == 2

\* Most checks started in one session of the TUI.
MaxRuns == 2

\* The popular list of the 'p' key holds ".com"; ".xyz" is not on it.
Popular == {".com"}

RECURSIVE TLDListsOfLen(_)
TLDListsOfLen(k) ==
    IF k = 0 THEN {<<>>}
    ELSE {Append(l, t) : l \in TLDListsOfLen(k - 1), t \in {".com", ".xyz"}}

\* loadTLDs: the file, or else the embedded list; never empty.
TLDLists == UNION {TLDListsOfLen(k) : k \in 1..MaxTLDs}

\* make(map[int]bool)
EmptyMap == [i \in {} |-> FALSE]

\* m.selectedTLDs[i], false for a missing key.
MapGet(sel, i) == IF i \in DOMAIN sel THEN sel[i] ELSE FALSE

\* m.selectedTLDs[i] = v
MapSet(sel, i, v) == [k \in DOMAIN sel \cup {i} |-> IF k = i THEN v ELSE sel[k]]

\* NewModel
NewModel(tlds) ==
    [state |-> "stateInput", input |-> "", keyword |-> "", tlds |-> tlds,
     selectedTLDs |-> EmptyMap, tldCursor |-> 0, results |-> <<>>,
     checking |-> FALSE, checkedCount |-> 0, totalCount |-> 0]

NothingHanded == [started |-> FALSE, domains |-> {}]

\* startChecking: the domains of the keys whose value is true.
DomainsOf(mm) == {i \in DOMAIN mm.selectedTLDs : mm.selectedTLDs[i]}

\* var sharedResults *asyncResults
NilResults == [isNil |-> TRUE, results |-> <<>>, done |-> FALSE]

\* &asyncResults{results: make([]checker.Result, 0, len(domains))}
NewResults == [isNil |-> FALSE, results |-> <<>>, done |-> FALSE]

TuiInit ==
    /\ m \in {NewModel(l) : l \in TLDLists}
    /\ handed = NothingHanded
    /\ sharedResults = NilResults
    /\ cmds = <<>>
    /\ pending = [tickMsg |-> 0, checkDoneMsg |-> 0]
    /\ SchedIdle /\ ClsIdle /\ ViewIdle /\ CliIdle

\* stateInput: any key that edits the text input.
KeyType ==
    /\ m.state = "stateInput"
    /\ \E v \in {"", "mycompany"} : m' = [m EXCEPT !.input = v]
    /\ UNCHANGED <<handed, tuiRun, schedVars, clsVars, viewVars, cliVars>>

\* stateInput: enter.
KeyEnterInput ==
    /\ m.state = "stateInput"
    /\ m' = [m EXCEPT !.keyword = m.input,
                      !.state = IF m.input # "" THEN "stateSelectTLDs" ELSE @]
    /\ UNCHANGED <<handed, tuiRun, schedVars, clsVars, viewVars, cliVars>>

\* stateSelectTLDs: up, k.
KeyUp ==
    /\ m.state = "stateSelectTLDs"
    /\ m' = [m EXCEPT !.tldCursor = IF @ > 0 THEN @ - 1 ELSE @]
    /\ UNCHANGED <<handed, tuiRun, schedVars, clsVars, viewVars, cliVars>>

\* stateSelectTLDs: down, j.
KeyDown ==
    /\ m.state = "stateSelectTLDs"
    /\ m' = [m EXCEPT !.tldCursor = IF @ < Len(m.tlds) - 1 THEN @ + 1 ELSE @]
    /\ UNCHANGED <<handed, tuiRun, schedVars, clsVars, viewVars, cliVars>>

\* stateSelectTLDs: space.
KeySpace ==
    /\ m.state = "stateSelectTLDs"
    /\ m' = [m EXCEPT !.selectedTLDs =
                MapSet(@, m.tldCursor, ~MapGet(@, m.tldCursor))]
    /\ UNCHANGED <<handed, tuiRun, schedVars, clsVars, viewVars, cliVars>>

\* stateSelectTLDs: a.
KeyA ==
    /\ m.state = "stateSelectTLDs"
    /\ m' = [m EXCEPT !.selectedTLDs =
                IF Cardinality(DOMAIN @) = Len(m.tlds)
                THEN EmptyMap
                ELSE [i \in 0..(Len(m.tlds) - 1) |-> TRUE]]
    /\ UNCHANGED <<handed, tuiRun, schedVars, clsVars, viewVars, cliVars>>

\* stateSelectTLDs: p.
KeyP ==
    /\ m.state = "stateSelectTLDs"
    /\ m' = [m EXCEPT !.selectedTLDs =
                [i \in DOMAIN @ \cup {k \in 0..(Len(m.tlds) - 1) : m.tlds[k + 1] \in Popular}
                   |-> IF m.tlds[i + 1] \in Popular THEN TRUE ELSE @[i]]]
    /\ UNCHANGED <<handed, tuiRun, schedVars, clsVars, viewVars, cliVars>>

\* stateSelectTLDs: enter, with startChecking, which replaces sharedResults
\* and returns the command of the run; a first tickMsg is asked for.
KeyEnterSelect ==
    /\ m.state = "stateSelectTLDs"
    /\ IF Cardinality(DOMAIN m.selectedTLDs) > 0
       THEN /\ Len(cmds) < MaxRuns
            /\ m' = [m EXCEPT !.state = "stateChecking", !.checking = TRUE,
                              !.totalCount = Cardinality(DOMAIN m.selectedTLDs)]
            /\ handed' = [started |-> TRUE, domains |-> DomainsOf(m)]
            /\ sharedResults' = NewResults
            /\ cmds' = Append(cmds, [pc |-> "range", todo |-> DomainsOf(m)])
            /\ pending' = [pending EXCEPT !.tickMsg = @ + 1]
       ELSE UNCHANGED <<m, handed, tuiRun>>
    /\ UNCHANGED <<schedVars, clsVars, viewVars, cliVars>>

\* stateSelectTLDs: backspace, esc.
KeyBack ==
    /\ m.state = "stateSelectTLDs"
    /\ m' = [m EXCEPT !.state = "stateInput"]
    /\ UNCHANGED <<handed, tuiRun, schedVars, clsVars, viewVars, cliVars>>

\* stateResults: r.
KeyR ==
    /\ m.state = "stateResults"
    /\ m' = [m EXCEPT !.state = "stateInput", !.results = <<>>,
                      !.checkedCount = 0]
    /\ UNCHANGED <<handed, tuiRun, schedVars, clsVars, viewVars, cliVars>>

\* The command of run k takes one Result off its resultChan and appends it
\* to whatever sharedResults points to now.  CheckDomains sends one Result
\* per domain, in no fixed order; the Result is written <<k, i>>.
CmdAppend(k) ==
    /\ cmds[k].pc = "range"
    /\ \E i \in cmds[k].todo :
          /\ sharedResults' = [sharedResults EXCEPT
                                  !.results = Append(@, <<k, i>>)]
          /\ cmds' = [cmds EXCEPT ![k].todo = @ \ {i}]
    /\ UNCHANGED <<m, handed, pending, schedVars, clsVars, viewVars, cliVars>>

\* resultChan is closed and drained: the command of run k marks
\* sharedResults done and returns checkDoneMsg.
CmdDone(k) ==
    /\ cmds[k].pc = "range"
    /\ cmds[k].todo = {}
    /\ sharedResults' = [sharedResults EXCEPT !.done = TRUE]
    /\ cmds' = [cmds EXCEPT ![k].pc = "returned"]
    /\ pending' = [pending EXCEPT !.checkDoneMsg = @ + 1]
    /\ UNCHANGED <<m, handed, schedVars, clsVars, viewVars, cliVars>>

\* Update(tickMsg)
Tick ==
    /\ pending.tickMsg > 0
    /\ IF m.state # "stateChecking" \/ sharedResults.isNil
       THEN /\ pending' = [pending EXCEPT !.tickMsg = @ - 1]
            /\ UNCHANGED m
       ELSE IF sharedResults.done
       THEN /\ m' = [m EXCEPT !.results = sharedResults.results,
                              !.checkedCount = Len(sharedResults.results),
                              !.checking = FALSE, !.state = "stateResults"]
            /\ pending' = [pending EXCEPT !.tickMsg = @ - 1]
       ELSE /\ m' = [m EXCEPT !.results = sharedResults.results,
                              !.checkedCount = Len(sharedResults.results)]
            /\ UNCHANGED pending
    /\ UNCHANGED <<handed, sharedResults, cmds, schedVars, clsVars, viewVars,
                   cliVars>>

\* Update(checkDoneMsg)
CheckDone ==
    /\ pending.checkDoneMsg > 0
    /\ pending' = [pending EXCEPT !.checkDoneMsg = @ - 1]
    /\ m' = [m EXCEPT !.checking = FALSE, !.state = "stateResults",
                      !.results = IF sharedResults.isNil THEN @
                                  ELSE sharedResults.results,
                      !.checkedCount = IF sharedResults.isNil THEN @
                                       ELSE Len(sharedResults.results)]
    /\ UNCHANGED <<handed, sharedResults, cmds, schedVars, clsVars, viewVars,
                   cliVars>>

TuiNext ==
    \/ KeyType
    \/ KeyEnterInput
    \/ KeyUp
    \/ KeyDown
    \/ KeySpace
    \/ KeyA
    \/ KeyP
    \/ KeyEnterSelect
    \/ KeyBack
    \/ KeyR
    \/ \E k \in 1..MaxRuns : k <= Len(cmds) /\ CmdAppend(k)
    \/ \E k \in 1..MaxRuns : k <= Len(cmds) /\ CmdDone(k)
    \/ Tick
    \/ CheckDone

TuiSpec == TuiInit /\ [][TuiNext]_vars

\* C20: a check starts only with at least one TLD selected, and totalCount is
\* the number of domains handed to CheckDomains.
C20_StartsWithSelection ==
    m.state = "stateChecking" =>
        /\ handed.started
        /\ Cardinality(handed.domains) >= 1
        /\ m.totalCount = Cardinality(handed.domains)

\* The run started last, and the Results a sequence holds.
LatestRun == Len(cmds)
Held(results) == {results[j] : j \in 1..Len(results)}

\* The collection of the run started last has finished and m.results holds
\* every Result that run delivered.
LatestRunShown ==
    /\ LatestRun >= 1
    /\ cmds[LatestRun].pc = "returned"
    /\ sharedResults.done
    /\ \A i \in handed.domains : <<LatestRun, i>> \in Held(m.results)

\* A step out of stateInput or stateSelectTLDs does not end in stateResults,
\* and a step into stateResults is for a run whose command has returned.
EntersResultsProperly ==
    /\ m.state \in {"stateInput", "stateSelectTLDs"} => m'.state # "stateResults"
    /\ (m.state # "stateResults" /\ m'.state = "stateResults")
          => cmds[LatestRun].pc = "returned"

\* C21: the model is in stateResults only when the collection of the run
\* started last has finished and m.results holds all its results; no step
\* takes the model from stateInput or stateSelectTLDs to stateResults, and a
\* message moves it to stateResults only for a run that has finished.
C21_ResultsOnlyWhenFinished ==
    /\ [](m.state = "stateResults" => LatestRunShown)
    /\ [][EntersResultsProperly]_vars

----------------------------------------------------------------------------
\* The tasks that hold a semaphore token, and those inside CheckDomain.
Holding == {t \in Tasks : tpc[t] \in {"start", "probe", "publish", "release"}}
Probing == {t \in Tasks : tpc[t] = "probe"}
Spawned == {t \in Tasks : tpc[t] # "idle"}
Terminal == {t \in Tasks : outcome[t] # "none"}

\* C1: with limit >= 1 and no cancellation, when the stream is closed every
\* submitted domain has been probed exactly once and its one Result has been
\* sent on the stream: N results, none twice, none missing, none from elsewhere.
C1_Completeness ==
    (closes > 0 /\ ~cancelled /\ concurrency >= 1) =>
        /\ \A d \in Domains : probes[d] = 1 /\ sent[d] = 1
        /\ \A t \in Tasks \ Domains : probes[t] = 0 /\ sent[t] = 0
        /\ Cardinality({t \in Tasks : sent[t] > 0}) = n

C1_Witness ==
    /\ closes > 0 /\ ~cancelled /\ n = MaxN /\ concurrency = 1
    /\ \A d \in Domains : sent[d] = 1

\* C2: with limit >= 1, at most `concurrency` tasks hold a slot, so at most
\* that many probes run at once, with or without cancellation.
C2_Bounded ==
    (concurrency >= 1) =>
        /\ Cardinality(Holding) <= concurrency
        /\ Cardinality(Probing) <= concurrency
        /\ semaphore <= concurrency

C2_Witness ==
    /\ concurrency >= 1 /\ Cardinality(Probing) = concurrency
    /\ dpc = "acquire" /\ n > concurrency

\* C3: CheckDomains has not returned, and the stream is not closed, while a
\* spawned task has yet to end; no task sends on the closed stream.
C3_ClosedAfterAllTasks ==
    /\ dpc \in {"returned", "closed"} => \A t \in Spawned : tpc[t] = "done"
    /\ closes > 0 => Spawned \subseteq Terminal
    /\ ~panicked

\* C4: with limit >= 1, fair scheduling and whois runs that end, CheckDomains
\* returns and the stream is closed, with or without cancellation, and
\* close(resultChan) runs once only.
C4_EventuallyClosedOnce ==
    (concurrency >= 1) => ([](closes <= 1) /\ <>[](dpc = "closed" /\ closes = 1))

C4_Witness ==
    /\ dpc = "closed" /\ closes = 1 /\ concurrency >= 1
    /\ cancelled /\ n = MaxN /\ idx < n /\ idx >= 1

\* C5 as stated: cancellation signalled before the first admission means that
\* no task is spawned, no probe runs and no result is sent.
C5_NothingSpawnedWhenCancelledFirst ==
    (cancelled /\ ctxDoneAt.idx = 0 /\ concurrency >= 1) =>
        /\ Spawned = {}
        /\ \A t \in Tasks : probes[t] = 0 /\ sent[t] = 0 /\ delivered[t] = 0

\* C5 amended: cancellation signalled before the first admission means that no
\* probe runs, nothing is sent or delivered and the stream, once closed, has
\* carried nothing; no task is spawned when the signal precedes the
\* dispatcher's first look at ctx.Done(), and otherwise the first request
\* alone is admitted and its task drops out before probing.
C5_NoProbeWhenCancelledFirst ==
    (cancelled /\ ctxDoneAt.idx = 0 /\ concurrency >= 1) =>
        /\ \A t \in Tasks : probes[t] = 0 /\ sent[t] = 0 /\ delivered[t] = 0
        /\ resultChan = <<>>
        /\ ~panicked
        /\ ctxDoneAt.dpc = "loop" => Spawned = {}
        /\ Spawned \subseteq {1}
        /\ \A t \in Spawned : outcome[t] \in {"none", "dropped"}

C5_Witness ==
    /\ cancelled /\ ctxDoneAt = [idx |-> 0, dpc |-> "acquire"] /\ concurrency >= 1
    /\ n = MaxN /\ tpc[1] = "done" /\ outcome[1] = "dropped"
    /\ closes = 1 /\ cpc = "returned"

\* C6 as stated: once cancellation is signalled, no task sends a Result on
\* the result stream.
C6_NoPublishAfterCancel == [][cancelled => sent' = sent]_vars

\* C7 as stated: once cancellation is signalled the dispatcher takes no
\* further slot and spawns no further task.
C7_NoAdmissionAfterCancel ==
    [][cancelled => (idx' = idx /\ semaphore' <= semaphore /\ Spawned = Spawned')]_vars

\* C7 amended: after the signal the dispatcher admits nothing further once it
\* has looked at ctx.Done(); a signal that arrives after that look, while the
\* dispatcher is about to take or is waiting for a slot, lets that one request
\* in, and its task neither probes nor publishes.
C7_AtMostOneLateAdmission ==
    cancelled =>
        /\ idx <= ctxDoneAt.idx + 1
        /\ idx = ctxDoneAt.idx + 1 =>
              /\ ctxDoneAt.dpc = "acquire"
              /\ probes[idx] = 0 /\ sent[idx] = 0
              /\ outcome[idx] \in {"none", "dropped"}

C7_Witness ==
    /\ cancelled /\ concurrency = 1 /\ ctxDoneAt = [idx |-> 1, dpc |-> "acquire"]
    /\ idx = 2 /\ outcome[2] = "dropped" /\ tpc[2] = "done"

\* C8: a task that finds ctx.Done() closed at its first select leaves without
\* running CheckDomain and without sending, and still gives its slot back and
\* calls wg.Done(), each once.
C8_DropsOutCleanly ==
    /\ [][\A t \in Tasks :
            (tpc[t] = "start" /\ cancelled /\ tpc'[t] # "start") =>
                /\ tpc'[t] = "release" /\ outcome'[t] = "dropped"
                /\ probes' = probes /\ sent' = sent /\ resultChan' = resultChan]_vars
    /\ [](\A t \in Tasks : outcome[t] = "dropped" =>
            /\ probes[t] = 0 /\ sent[t] = 0
            /\ tpc[t] \in {"release", "wgdone", "done"}
            /\ tpc[t] = "done" => released[t] = 1 /\ wgDone[t] = 1)

C8_Witness ==
    \E t \in Tasks :
        /\ outcome[t] = "dropped" /\ tpc[t] = "done"
        /\ released[t] = 1 /\ wgDone[t] = 1 /\ probes[t] = 0
        /\ semaphore = 0 /\ wg = 0

\* C9: slots are taken and given back in pairs: the semaphore holds one token
\* per task that has not yet given its slot back, every task gives back once,
\* on every way out, and with all spawned tasks ended no slot is held.
C9_MatchedPairs ==
    /\ semaphore = Cardinality(Holding)
    /\ semaphore >= 0
    /\ \A t \in Tasks : released[t] = IF tpc[t] \in {"wgdone", "done"} THEN 1 ELSE 0
    /\ (\A t \in Spawned : tpc[t] = "done") => semaphore = 0

C9_Witness ==
    /\ n = MaxN /\ \A t \in Domains : tpc[t] = "done" /\ released[t] = 1
    /\ outcome[1] = "discarded" /\ outcome[2] = "dropped"
    /\ semaphore = 0

\* C10: a whois run without output gives a Result with Error set, which is
\* sent and delivered like any other; without cancellation no task ends
\* without publishing, every domain is sent by the time the stream is closed
\* and delivered by the time the consumer is through, and nothing panics.
C10_FailuresIsolated ==
    /\ \A t \in Tasks : probes[t] = 1 => result[t].Error = (whois[t] = "nooutput")
    /\ ~cancelled =>
          /\ \A t \in Tasks : tpc[t] \in {"release", "wgdone", "done"} =>
                                 outcome[t] = "published" /\ sent[t] = 1
          /\ ~panicked
          /\ (closes > 0 /\ concurrency >= 1) => \A d \in Domains : sent[d] = 1
          /\ (cpc = "returned" /\ concurrency >= 1) => \A d \in Domains : delivered[d] = 1

C10_Witness ==
    /\ ~cancelled /\ cpc = "returned" /\ n = MaxN
    /\ result[1].Error /\ ~result[2].Error
    /\ delivered[1] = 1 /\ delivered[2] = 1

\* C15: the channel both callers make has room for every Result, so the
\* send of a task that has its Result can always proceed, whether or not the
\* consumer still reads, and the slot can then be given back at once.
C15_PublishNeverBlocks ==
    \A t \in Tasks :
        /\ (tpc[t] = "publish" /\ ~panicked /\ closes = 0) =>
              ENABLED (TaskPublish(t) /\ sent'[t] = sent[t] + 1)
        /\ (tpc[t] = "publish" /\ ~panicked) => ENABLED TaskPublish(t)
        /\ (tpc[t] = "release" /\ ~panicked) => ENABLED TaskRelease(t)

C15_Witness ==
    /\ caller = "callback" /\ cancelled /\ cpc = "returned" /\ n = MaxN
    /\ tpc[2] = "done" /\ outcome[2] = "published" /\ released[2] = 1
    /\ resultChan = <<2>>

\* C16: without cancellation CheckDomainsWithCallback calls back once per
\* Result, from its own loop, and returns only when the stream is closed and
\* drained and all N callbacks are done.
C16_CallbackOncePerResult ==
    (caller = "callback" /\ ~cancelled) =>
        /\ \A t \in Tasks : delivered[t] <= sent[t] /\ delivered[t] <= 1
        /\ cpc = "returned" =>
              /\ closes = 1 /\ resultChan = <<>>
              /\ \A d \in Domains : delivered[d] = 1
              /\ \A t \in Tasks \ Domains : delivered[t] = 0

C16_Witness ==
    /\ caller = "callback" /\ ~cancelled /\ cpc = "returned"
    /\ n = MaxN /\ concurrency = MaxC /\ \A d \in Domains : delivered[d] = 1

\* C17: CheckDomainsWithCallback receiving a Result with ctx.Done() closed
\* returns at once without calling back, whatever is still in flight, and
\* calls back no more after that.
C17_NoCallbackAfterCancelSeen ==
    /\ [][(caller = "callback" /\ cancelled /\ cpc = "range"
             /\ Len(resultChan') < Len(resultChan)) =>
                (cpc' = "returned" /\ delivered' = delivered)]_vars
    /\ [][cpc = "returned" => (cpc' = "returned" /\ delivered' = delivered)]_vars

C17_Witness ==
    /\ caller = "callback" /\ cancelled /\ cpc = "returned" /\ closes = 0
    /\ dpc = "wait" /\ tpc[2] = "probe" /\ resultChan = <<>>
    /\ delivered[1] = 0 /\ sent[1] = 1

\* C19: with a limit of 0, a list that is not empty and no cancellation, the
\* dispatcher stays at its first semaphore send: no task, no probe, no
\* return, no close.
C19_ZeroLimitBlocks ==
    (concurrency = 0 /\ n > 0 /\ ~cancelled) =>
        /\ dpc \in {"loop", "acquire"} /\ idx = 0
        /\ Spawned = {} /\ \A t \in Tasks : probes[t] = 0
        /\ closes = 0 /\ semaphore = 0
        /\ dpc = "acquire" => ~ENABLED (LoopHead \/ Acquire \/ WgWait \/ CloseChan)

C19_Witness ==
    /\ concurrency = 0 /\ n = MaxN /\ ~cancelled /\ dpc = "acquire" /\ wg = 1

====
